---- MODULE Spec2Model ----
(***************************************************************************)
(* Model of app.py, the Streamlit influence-simulation app.                *)
(*                                                                         *)
(* Streamlit re-executes the whole script (main) on every user             *)
(* interaction.  st.session_state survives between runs; a button returns  *)
(* True only in the run triggered by clicking it, and only a button that   *)
(* was drawn by the previous run can be clicked.  An exception raised by   *)
(* a gateway call (client.chat.completions.create) is not caught anywhere  *)
(* in app.py: it ends the run at that line, and every write to             *)
(* st.session_state made before that line stays.                           *)
(*                                                                         *)
(* A text is a sequence of tokens.  The tokens that matter to the code are *)
(* the two labels of the designer's answer and whitespace.                 *)
(***************************************************************************)
EXTENDS Integers, Sequences, FiniteSets, TLC

\* ---------------------------------------------------------------- bounds
MaxTurns == 4
MaxEvalCalls == 3
MaxRespLen == 3

\* ------------------------------------------------------- optional values
None == <<>>
Some(t) == <<t>>

\* ------------------------------------------------------------- text model
SCENARIO_LABEL == "SCENARIO:"
RUBRIC_DELIMITER == "EVALUATION_RUBRIC:"
WS == " "
NO_RUBRIC_FOUND == <<"No rubric found.">>

RECURSIVE LStrip(_)
LStrip(t) == IF t # <<>> /\ Head(t) = WS THEN LStrip(Tail(t)) ELSE t

RECURSIVE RStrip(_)
RStrip(t) ==
    IF t # <<>> /\ t[Len(t)] = WS THEN RStrip(SubSeq(t, 1, Len(t) - 1)) ELSE t

\* str.strip()
Strip(t) == RStrip(LStrip(t))

\* needle in text
Contains(t, tok) == \E i \in 1..Len(t) : t[i] = tok

\* position of the first occurrence of tok in t, Len(t)+1 when there is none
RECURSIVE Find(_, _)
Find(t, tok) ==
    IF t = <<>> THEN 1
    ELSE IF Head(t) = tok THEN 1
    ELSE 1 + Find(Tail(t), tok)

\* text.split(tok): the list of the pieces between the occurrences of tok
RECURSIVE Split(_, _)
Split(t, tok) ==
    LET i == Find(t, tok) IN
    IF i > Len(t) THEN <<t>>
    ELSE <<SubSeq(t, 1, i - 1)>> \o Split(SubSeq(t, i + 1, Len(t)), tok)

\* text.replace(tok, "")
Remove(t, tok) == SelectSeq(t, LAMBDA x : x # tok)

\* lines 114-123 of call_scenario_designer: <<scenario_part, rubric_part>>
ParseDesignerOutput(text_out) ==
    IF Contains(text_out, RUBRIC_DELIMITER)
    THEN LET parts == Split(text_out, RUBRIC_DELIMITER) IN
         <<Strip(Remove(parts[1], SCENARIO_LABEL)), Strip(parts[2])>>
    ELSE <<Strip(text_out), NO_RUBRIC_FOUND>>

\* the loops of lines 223-226 and 250-253
RECURSIVE ConversationText(_)
ConversationText(msgs) ==
    IF msgs = <<>> THEN <<>>
    ELSE LET m == Head(msgs)
             role_label == IF m.role = "user" THEN "USER" ELSE "FACILITATOR"
         IN <<role_label, ": ">> \o m.content \o <<"\n">>
            \o ConversationText(Tail(msgs))

\* ---------------------------------------------------------------- inputs
\* what client.chat.completions.create does: raise, or return a content
Raise == [ok |-> FALSE, content |-> <<>>]
Return(t) == [ok |-> TRUE, content |-> t]

\* answers of the designer model: with both labels, with no delimiter,
\* with nothing before the delimiter, and empty
DesignerResponses ==
    {<<SCENARIO_LABEL, WS, "Foo", WS, RUBRIC_DELIMITER, WS, "Bar">>,
     <<"Just a scenario.">>,
     <<RUBRIC_DELIMITER, "Bar", WS>>,
     <<>>}
DesignerOutcomes == {Raise} \cup {Return(t) : t \in DesignerResponses}
FacilitatorOutcomes == {Raise, Return(<<"What will you do next?">>)}
EvaluatorOutcomes == {Raise, Return(<<>>), Return(<<"Feedback">>)}

\* values of the "Your next move" text area
Moves == {<<>>, <<WS>>, <<WS, WS>>, <<"a">>, <<"b", WS>>}

\* every text of at most n tokens of S
SeqsUpTo(S, n) == UNION {[1..k -> S] : k \in 0..n}

\* answers of the designer model for the check of the parse of lines 114-123
ParseTokens == {SCENARIO_LABEL, RUBRIC_DELIMITER, WS, "Foo", "Bar"}
ParseInputs == SeqsUpTo(ParseTokens, MaxRespLen)

\* ----------------------------------------------------------------- state
VARIABLES
    session_state,    \* st.session_state
    rendered,         \* the buttons drawn by the last script run
    lastRun,          \* what the last script run did
    accepted,         \* moves that passed validation since the last restart
    evaluator_calls   \* call_evaluator invocations since the last restart

vars == <<session_state, rendered, lastRun, accepted, evaluator_calls>>

\* lines 16-25
InitialSession ==
    [scenario_output |-> None,
     evaluation_rubric |-> None,
     simulation_messages |-> <<>>,
     evaluation_feedback |-> None,
     simulation_finished |-> FALSE]

\* ------------------------------------------------------ one script run
\* the progress of one execution of main()
NewRun(ss) ==
    [ss |-> ss, rendered |-> {}, aborted |-> FALSE, calls |-> <<>>,
     warning |-> FALSE, validated |-> <<>>, restarted |-> FALSE]

\* st.button(...) is reached: the button is drawn
Render(r, b) == [r EXCEPT !.rendered = @ \cup {b}]

\* a gateway call that returns content
Called(r, gateway, args, content) ==
    [r EXCEPT !.calls = Append(@, [gateway |-> gateway, ok |-> TRUE,
                                   args |-> args,
                                   returned |-> Some(content)])]

\* a gateway call that raises: the run ends here
Aborted(r, gateway, args) ==
    [r EXCEPT !.calls = Append(@, [gateway |-> gateway, ok |-> FALSE,
                                   args |-> args, returned |-> None]),
              !.aborted = TRUE]

\* GenerateScenario without line 187: the rubric is not stored
GenerateScenario_ScenarioOnly(r, designer) ==
    IF ~designer.ok THEN Aborted(r, "designer", <<>>)
    ELSE LET p == ParseDesignerOutput(designer.content) IN
         [Called(r, "designer", <<>>, designer.content) EXCEPT
            !.ss.scenario_output = Some(p[1])]

\* GenerateScenario storing an empty scenario before the call is made
GenerateScenario_WriteBeforeCall(r, designer) ==
    LET r0 == [r EXCEPT !.ss.scenario_output = Some(<<>>)] IN
    IF ~designer.ok THEN Aborted(r0, "designer", <<>>)
    ELSE LET p == ParseDesignerOutput(designer.content) IN
         [Called(r0, "designer", <<>>, designer.content) EXCEPT
            !.ss.scenario_output = Some(p[1]),
            !.ss.evaluation_rubric = Some(p[2])]

\* lines 179-188, with call_scenario_designer (lines 94-123)
GenerateScenario(r, designer) ==
    IF ~designer.ok THEN Aborted(r, "designer", <<>>)
    ELSE LET p == ParseDesignerOutput(designer.content) IN
         [Called(r, "designer", <<>>, designer.content) EXCEPT
            !.ss.scenario_output = Some(p[1]),
            !.ss.evaluation_rubric = Some(p[2])]

\* SectionA without the guard of line 170: the setup form is always shown
SectionA_AlwaysShown(r, clicked, designer) ==
    IF r.aborted THEN r
    ELSE LET r1 == Render(r, "generate") IN
         IF clicked = "generate" THEN GenerateScenario(r1, designer) ELSE r1

\* (A) lines 170-188
SectionA(r, clicked, designer) ==
    IF r.aborted \/ r.ss.scenario_output # None THEN r
    ELSE LET r1 == Render(r, "generate") IN
         IF clicked = "generate" THEN GenerateScenario(r1, designer) ELSE r1

\* IsBlank without the strip(): only the empty text is blank
IsBlank_EmptyOnly(user_input) == user_input = <<>>

\* line 215: not user_input.strip()
IsBlank(user_input) == Strip(user_input) = <<>>

\* AppendFacilitator with insert(0, ...) in place of append(...)
AppendFacilitator_Prepend(msgs, facilitator_output) ==
    <<[role |-> "assistant", content |-> facilitator_output]>> \o msgs

\* lines 230-232
AppendFacilitator(msgs, facilitator_output) ==
    Append(msgs, [role |-> "assistant", content |-> facilitator_output])

\* SubmitMove building the conversation text before the USER turn is added
SubmitMove_ContextBeforeAppend(r, user_input, facilitator) ==
    IF IsBlank(user_input) THEN [r EXCEPT !.warning = TRUE]
    ELSE LET scenario_text == r.ss.scenario_output
             msgs == Append(r.ss.simulation_messages,
                            [role |-> "user", content |-> user_input])
             conversation_text == ConversationText(r.ss.simulation_messages)
             args == <<scenario_text, conversation_text>>
             r1 == [r EXCEPT !.ss.simulation_messages = msgs,
                             !.validated = Append(@, user_input)]
         IN IF ~facilitator.ok THEN Aborted(r1, "facilitator", args)
            ELSE [Called(r1, "facilitator", args, facilitator.content) EXCEPT
                    !.ss.simulation_messages =
                        AppendFacilitator(msgs, facilitator.content)]

\* lines 215-233, with call_simulation_facilitator (lines 126-140)
SubmitMove(r, user_input, facilitator) ==
    IF IsBlank(user_input) THEN [r EXCEPT !.warning = TRUE]
    ELSE LET scenario_text == r.ss.scenario_output
             msgs == Append(r.ss.simulation_messages,
                            [role |-> "user", content |-> user_input])
             conversation_text == ConversationText(msgs)
             args == <<scenario_text, conversation_text>>
             r1 == [r EXCEPT !.ss.simulation_messages = msgs,
                             !.validated = Append(@, user_input)]
         IN IF ~facilitator.ok THEN Aborted(r1, "facilitator", args)
            ELSE [Called(r1, "facilitator", args, facilitator.content) EXCEPT
                    !.ss.simulation_messages =
                        AppendFacilitator(msgs, facilitator.content)]

\* FinishSimulation that does not store the flag
FinishSimulation_FlagNotStored(r) == r

\* lines 237-238
FinishSimulation(r) == [r EXCEPT !.ss.simulation_finished = TRUE]

\* SectionB shown whenever the simulation is not finished, scenario or not
SectionB_NoScenarioCheck(r, clicked, user_input, facilitator) ==
    IF r.aborted \/ r.ss.simulation_finished
    THEN r
    ELSE LET r1 == Render(r, "submit")
             r2 == IF clicked = "submit"
                   THEN SubmitMove(r1, user_input, facilitator) ELSE r1
         IN IF r2.aborted THEN r2
            ELSE LET r3 == Render(r2, "finish") IN
                 IF clicked = "finish" THEN FinishSimulation(r3) ELSE r3

\* SectionB without `not simulation_finished` in the guard of line 193
SectionB_NoFinishedCheck(r, clicked, user_input, facilitator) ==
    IF r.aborted \/ r.ss.scenario_output = None
    THEN r
    ELSE LET r1 == Render(r, "submit")
             r2 == IF clicked = "submit"
                   THEN SubmitMove(r1, user_input, facilitator) ELSE r1
         IN IF r2.aborted THEN r2
            ELSE LET r3 == Render(r2, "finish") IN
                 IF clicked = "finish" THEN FinishSimulation(r3) ELSE r3

\* (B) lines 193-238
SectionB(r, clicked, user_input, facilitator) ==
    IF r.aborted
       \/ ~(r.ss.scenario_output # None /\ ~r.ss.simulation_finished)
    THEN r
    ELSE LET r1 == Render(r, "submit")
             r2 == IF clicked = "submit"
                   THEN SubmitMove(r1, user_input, facilitator) ELSE r1
         IN IF r2.aborted THEN r2
            ELSE LET r3 == Render(r2, "finish") IN
                 IF clicked = "finish" THEN FinishSimulation(r3) ELSE r3

\* NeedsEvaluation without the guard: every run of section (C) evaluates
NeedsEvaluation_Always(ss) == TRUE

\* line 246
NeedsEvaluation(ss) == ss.evaluation_feedback = None

\* Evaluate passing an empty rubric when the stored rubric is the sentinel
Evaluate_SpecialCasesSentinel(r, evaluator) ==
    LET rubric == IF r.ss.evaluation_rubric = Some(NO_RUBRIC_FOUND)
                  THEN Some(<<>>) ELSE r.ss.evaluation_rubric
        args == <<r.ss.scenario_output,
                  ConversationText(r.ss.simulation_messages),
                  rubric>>
    IN IF ~evaluator.ok THEN Aborted(r, "evaluator", args)
       ELSE [Called(r, "evaluator", args, evaluator.content) EXCEPT
               !.ss.evaluation_feedback = Some(evaluator.content)]

\* lines 247-262, with call_evaluator (lines 143-158)
Evaluate(r, evaluator) ==
    LET args == <<r.ss.scenario_output,
                  ConversationText(r.ss.simulation_messages),
                  r.ss.evaluation_rubric>>
    IN IF ~evaluator.ok THEN Aborted(r, "evaluator", args)
       ELSE [Called(r, "evaluator", args, evaluator.content) EXCEPT
               !.ss.evaluation_feedback = Some(evaluator.content)]

\* RestartEverything without line 273: the transcript is kept
RestartEverything_KeepTranscript(r) ==
    [r EXCEPT !.ss.scenario_output = None,
              !.ss.evaluation_rubric = None,
              !.ss.evaluation_feedback = None,
              !.ss.simulation_finished = FALSE,
              !.restarted = TRUE]

\* RestartEverything without line 275: the finished flag is kept
RestartEverything_KeepFinished(r) ==
    [r EXCEPT !.ss.scenario_output = None,
              !.ss.evaluation_rubric = None,
              !.ss.simulation_messages = <<>>,
              !.ss.evaluation_feedback = None,
              !.restarted = TRUE]

\* RestartEverything without line 274: the feedback is kept
RestartEverything_KeepFeedback(r) ==
    [r EXCEPT !.ss.scenario_output = None,
              !.ss.evaluation_rubric = None,
              !.ss.simulation_messages = <<>>,
              !.ss.simulation_finished = FALSE,
              !.restarted = TRUE]

\* lines 271-276
RestartEverything(r) ==
    [r EXCEPT !.ss.scenario_output = None,
              !.ss.evaluation_rubric = None,
              !.ss.simulation_messages = <<>>,
              !.ss.evaluation_feedback = None,
              !.ss.simulation_finished = FALSE,
              !.restarted = TRUE]

\* SectionC with the restart button placed above the evaluation
SectionC_RestartFirst(r, clicked, evaluator) ==
    IF r.aborted \/ ~r.ss.simulation_finished THEN r
    ELSE LET r1 == Render(r, "restart")
             r2 == IF clicked = "restart" THEN RestartEverything(r1) ELSE r1
         IN IF r2.ss.simulation_finished /\ NeedsEvaluation(r2.ss)
            THEN Evaluate(r2, evaluator) ELSE r2

\* (C) lines 243-276
SectionC(r, clicked, evaluator) ==
    IF r.aborted \/ ~r.ss.simulation_finished THEN r
    ELSE LET r1 == IF NeedsEvaluation(r.ss) THEN Evaluate(r, evaluator)
                   ELSE r
         IN IF r1.aborted THEN r1
            ELSE LET r2 == Render(r1, "restart") IN
                 IF clicked = "restart" THEN RestartEverything(r2) ELSE r2

\* lines 164-276
main(ss, clicked, user_input, designer, facilitator, evaluator) ==
    SectionC(SectionB(SectionA(NewRun(ss), clicked, designer),
                      clicked, user_input, facilitator),
             clicked, evaluator)

EvaluatorCallsOf(calls) ==
    Len(SelectSeq(calls, LAMBDA c : c.gateway = "evaluator"))

\* one execution of the script, triggered by a click or by a plain rerun
ScriptRun(clicked, user_input, designer, facilitator, evaluator) ==
    LET r == main(session_state, clicked, user_input,
                  designer, facilitator, evaluator)
        n == (IF r.restarted THEN 0 ELSE evaluator_calls)
             + EvaluatorCallsOf(r.calls)
    IN /\ Len(r.ss.simulation_messages) <= MaxTurns
       /\ n <= MaxEvalCalls
       /\ session_state' = r.ss
       /\ rendered' = r.rendered
       /\ lastRun' = [clicked |-> clicked, user_input |-> user_input,
                      calls |-> r.calls, warning |-> r.warning,
                      aborted |-> r.aborted, restarted |-> r.restarted]
       /\ accepted' = (IF r.restarted THEN <<>> ELSE accepted) \o r.validated
       /\ evaluator_calls' = n

\* ---------------------------------------------------------------- events
\* "Generate Scenario" is clicked
ClickGenerate ==
    /\ "generate" \in rendered
    /\ \E d \in DesignerOutcomes, e \in EvaluatorOutcomes :
          ScriptRun("generate", <<>>, d, Raise, e)

\* "Submit Move" is clicked with the text area holding user_input
ClickSubmit ==
    /\ "submit" \in rendered
    /\ \E m \in Moves, f \in FacilitatorOutcomes, e \in EvaluatorOutcomes :
          ScriptRun("submit", m, Raise, f, e)

\* "Finish & Evaluate" is clicked
ClickFinish ==
    /\ "finish" \in rendered
    /\ \E e \in EvaluatorOutcomes : ScriptRun("finish", <<>>, Raise, Raise, e)

\* "Restart Everything" is clicked
ClickRestart ==
    /\ "restart" \in rendered
    /\ \E e \in EvaluatorOutcomes :
          ScriptRun("restart", <<>>, Raise, Raise, e)

\* the script is rerun with no button pressed
Rerun ==
    \E e \in EvaluatorOutcomes : ScriptRun("none", <<>>, Raise, Raise, e)

\* the session after the first run of the script: lines 16-25 have set the
\* five keys and section (A) has drawn the setup form
Init ==
    /\ session_state = InitialSession
    /\ rendered = {"generate"}
    /\ lastRun = [clicked |-> "none", user_input |-> <<>>, calls |-> <<>>,
                  warning |-> FALSE, aborted |-> FALSE, restarted |-> FALSE]
    /\ accepted = <<>>
    /\ evaluator_calls = 0

Next ==
    \/ ClickGenerate
    \/ ClickSubmit
    \/ ClickFinish
    \/ ClickRestart
    \/ Rerun

Spec == Init /\ [][Next]_vars

\* ------------------------------------------- the designer's answer, parsed
\* "Generate Scenario" is clicked and the designer returns any bounded text
DesignerAnswers ==
    /\ "generate" \in rendered
    /\ \E t \in ParseInputs :
          ScriptRun("generate", <<>>, Return(t), Raise, Raise)

ParseNext == DesignerAnswers

SpecParse == Init /\ [][ParseNext]_vars

\* ------------------------------------------------------------ properties
Scenario == session_state.scenario_output
Rubric == session_state.evaluation_rubric
Transcript == session_state.simulation_messages
Feedback == session_state.evaluation_feedback
Finished == session_state.simulation_finished

IsPrefix(s, t) == Len(s) <= Len(t) /\ SubSeq(t, 1, Len(s)) = s

\* the last run made a call to gateway g that raised
GatewayFailed(g) ==
    \E i \in 1..Len(lastRun.calls) :
        lastRun.calls[i].gateway = g /\ ~lastRun.calls[i].ok

\* the step is a run in which "Restart Everything" was pressed while the
\* evaluation section was shown, and which got as far as the button
ResetStep ==
    /\ Finished
    /\ lastRun'.clicked = "restart"
    /\ ~lastRun'.aborted

\* a click on "Restart Everything" is possible and resets the session,
\* whatever the gateway does
ResetAccepted ==
    /\ "restart" \in rendered
    /\ \A e \in EvaluatorOutcomes :
          main(session_state, "restart", <<>>, Raise, Raise, e).restarted

\* C1: when the facilitator call of a non-blank move fails, the session is
\* exactly as it was before the event (no USER turn is left behind).
C1_FailedMoveLeavesSessionUnchanged ==
    [][(lastRun'.clicked = "submit" /\ GatewayFailed("facilitator")')
          => session_state' = session_state]_vars

\* C2: in every reachable state the rubric is non-null exactly when the
\* scenario is non-null.
C2_RubricIffScenario == (Rubric # None) <=> (Scenario # None)

C2_Witness ==
    /\ Scenario # None
    /\ Rubric = Some(NO_RUBRIC_FOUND)
    /\ lastRun.clicked = "generate"

\* C3: after N accepted moves the transcript has 2N turns, one USER turn
\* followed by one FACILITATOR turn per move, the USER turns in the order
\* the moves were submitted.
C3_TwoTurnsPerAcceptedMove ==
    /\ Len(Transcript) = 2 * Len(accepted)
    /\ \A i \in 1..Len(accepted) :
          /\ Transcript[2 * i - 1] = [role |-> "user", content |-> accepted[i]]
          /\ Transcript[2 * i].role = "assistant"

\* C4: between the finish event and the next restart the evaluator gateway
\* is invoked exactly once.
C4_EvaluatorInvokedOnce == Finished => evaluator_calls = 1

\* C5: once the feedback is non-null, a further run in FINISHED makes no
\* gateway call and does not write the feedback (only a restart clears it).
C5_EvaluationIdempotent ==
    [][(Finished /\ Feedback # None)
          => /\ lastRun'.calls = <<>>
             /\ evaluator_calls' = evaluator_calls \/ ResetStep
             /\ Feedback' = Feedback \/ ResetStep]_vars

C5_Witness ==
    /\ Finished
    /\ Feedback # None
    /\ lastRun.calls = <<>>
    /\ evaluator_calls = 1

\* C6 (as claimed): a restart is accepted in every reachable state.
C6_ResetAcceptedEverywhere == ResetAccepted

\* C6 (amended): a restart is accepted exactly in FINISHED with the feedback
\* present; when taken it makes no gateway call and leaves the session in
\* SETUP.
C6_ResetAcceptedAfterEvaluation ==
    /\ [](ResetAccepted <=> (Finished /\ Feedback # None))
    /\ [][ResetStep => /\ lastRun'.calls = <<>>
                       /\ Scenario' = None
                       /\ ~Finished'
                       /\ "restart" \in rendered]_vars

C6_Witness ==
    /\ lastRun.clicked = "restart"
    /\ lastRun.restarted
    /\ Scenario = None
    /\ ~ResetAccepted

\* C7: after a restart every session field has its initial value.
C7_ResetRestoresInitialValues ==
    [][ResetStep => session_state' = InitialSession]_vars

C7_Witness ==
    /\ lastRun.clicked = "restart"
    /\ ~lastRun.aborted
    /\ rendered = {"restart"}
    /\ session_state = InitialSession

\* C8: an empty or whitespace-only move submitted in SIMULATING is rejected
\* with a warning, without a gateway call and without any change to the
\* session.
C8_BlankMoveRejected ==
    [][(/\ Scenario # None
        /\ ~Finished
        /\ lastRun'.clicked = "submit"
        /\ \A i \in 1..Len(lastRun'.user_input) : lastRun'.user_input[i] = WS)
          => /\ lastRun'.warning
             /\ lastRun'.calls = <<>>
             /\ session_state' = session_state]_vars

C8_Witness ==
    /\ lastRun.clicked = "submit"
    /\ lastRun.user_input = <<WS, WS>>
    /\ lastRun.warning
    /\ Len(Transcript) = 2

\* C9: when the designer call fails, scenario and rubric stay null and the
\* session stays in SETUP: the next scenario request is handled.
C9_DesignerFailureKeepsSetup ==
    [][GatewayFailed("designer")'
          => /\ session_state' = session_state
             /\ Scenario' = None
             /\ Rubric' = None
             /\ "generate" \in rendered'
             /\ \E d \in DesignerOutcomes :
                   main(session_state', "generate", <<>>, d, Raise, Raise)
                       .ss.scenario_output # None]_vars

C9_Witness ==
    /\ GatewayFailed("designer")
    /\ lastRun.clicked = "generate"
    /\ Scenario = None
    /\ rendered = {"generate"}

\* C10: across every step other than a restart, the transcript before the
\* step is a prefix of the transcript after it.
C10_TranscriptAppendOnly ==
    [][IsPrefix(Transcript, Transcript') \/ ResetStep]_vars

C10_Witness ==
    /\ Len(Transcript) = 4
    /\ lastRun.clicked = "submit"
    /\ Transcript[1] = [role |-> "user", content |-> <<"b", WS>>]
    /\ Transcript[2].role = "assistant"
    /\ Transcript[3] = [role |-> "user", content |-> <<"a">>]
    /\ Transcript[4].role = "assistant"

\* C11: in every reachable state, finished implies that the scenario is
\* non-null.
C11_FinishedImpliesScenario == Finished => Scenario # None

C11_Witness ==
    /\ Finished
    /\ Scenario # None
    /\ Feedback = None
    /\ lastRun.clicked = "finish"

\* C12: in every reachable state, the feedback is non-null only if finished
\* is true.
C12_FeedbackOnlyIfFinished == Feedback # None => Finished

C12_Witness ==
    /\ Feedback = Some(<<"Feedback">>)
    /\ Finished
    /\ lastRun.clicked = "finish"

\* C13: in every reachable state, a non-empty transcript implies that the
\* scenario is non-null.
C13_TranscriptNeedsScenario == Transcript # <<>> => Scenario # None

C13_Witness ==
    /\ Len(Transcript) = 1
    /\ Scenario # None
    /\ GatewayFailed("facilitator")

\* the session is in SIMULATING: a scenario exists and finished is false
Simulating == Scenario # None /\ ~Finished

\* C14 (as claimed): a finish event in SIMULATING sets finished without any
\* gateway call in that event and leaves scenario, rubric and transcript
\* unchanged.
C14_FinishCallsNoGateway ==
    [][(Simulating /\ lastRun'.clicked = "finish")
          => /\ Finished'
             /\ lastRun'.calls = <<>>
             /\ Scenario' = Scenario
             /\ Rubric' = Rubric
             /\ Transcript' = Transcript]_vars

\* C14 (amended): a finish event in SIMULATING sets finished and makes, in
\* the same run, exactly one gateway call, to the evaluator; scenario,
\* rubric and transcript are unchanged whether or not that call succeeds.
C14_FinishSetsFlagAndEvaluates ==
    [][(Simulating /\ lastRun'.clicked = "finish")
          => /\ Finished'
             /\ Len(lastRun'.calls) = 1
             /\ lastRun'.calls[1].gateway = "evaluator"
             /\ Scenario' = Scenario
             /\ Rubric' = Rubric
             /\ Transcript' = Transcript]_vars

C14_Witness ==
    /\ lastRun.clicked = "finish"
    /\ Finished
    /\ GatewayFailed("evaluator")
    /\ Len(Transcript) = 2
    /\ evaluator_calls = 1

\* C16: once the scenario is non-null, no step other than a restart changes
\* the scenario or the rubric.
C16_ScenarioSetOnce ==
    [][Scenario # None
          => \/ Scenario' = Scenario /\ Rubric' = Rubric
             \/ ResetStep]_vars

C16_Witness ==
    /\ Scenario # None
    /\ lastRun.clicked = "generate"
    /\ lastRun.calls = <<>>

\* number of occurrences of tok in the text t
CountTok(t, tok) == Len(SelectSeq(t, LAMBDA x : x = tok))

\* the last run made its first gateway call to g
FirstCallTo(g) == lastRun.calls # <<>> /\ lastRun.calls[1].gateway = g

\* C17: the context of the facilitator call is the rendering of the whole
\* transcript in order, the USER turn of this move included as its last
\* line; on the Nth accepted move with no earlier failure it has 2N-1 lines.
C17_FacilitatorContextIsWholeTranscript ==
    [][(lastRun'.clicked = "submit" /\ FirstCallTo("facilitator")')
          => LET move == lastRun'.user_input
                 ctx == lastRun'.calls[1].args[2]
                 line == <<"USER", ": ">> \o move \o <<"\n">>
             IN /\ lastRun'.calls[1].args[1] = Scenario
                /\ ctx = ConversationText(Transcript) \o line
                /\ CountTok(ctx, "\n") = Len(Transcript) + 1
                /\ Len(Transcript) = 2 * Len(accepted)
                      => CountTok(ctx, "\n") = 2 * (Len(accepted) + 1) - 1
       ]_vars

C17_Witness ==
    /\ lastRun.clicked = "submit"
    /\ FirstCallTo("facilitator")
    /\ Len(accepted) = 2
    /\ Len(Transcript) = 4
    /\ CountTok(lastRun.calls[1].args[2], "\n") = 3

\* C18: the evaluator call receives the stored scenario, the rendering of
\* the whole transcript and the stored rubric, unchanged; the returned text
\* is stored as the feedback as it is.
C18_EvaluatorGetsStoredValues ==
    [][FirstCallTo("evaluator")'
          => LET c == lastRun'.calls[1] IN
             /\ c.args = <<Scenario, ConversationText(Transcript), Rubric>>
             /\ Transcript' = Transcript
             /\ c.ok => Feedback' = c.returned
             /\ ~c.ok => Feedback' = None]_vars

C18_Witness ==
    /\ FirstCallTo("evaluator")
    /\ lastRun.calls[1].ok
    /\ lastRun.calls[1].args = <<Scenario, <<>>, Some(NO_RUBRIC_FOUND)>>
    /\ Transcript = <<>>
    /\ Feedback = Some(<<"Feedback">>)

\* C19: the designer is called only while the scenario is null, the
\* facilitator only in SIMULATING, the evaluator only while finished is
\* true and the feedback is null; a scenario and the finished flag last
\* until the restart.
C19_CallsMatchState ==
    [][/\ \A i \in 1..Len(lastRun'.calls) :
             LET c == lastRun'.calls[i] IN
             /\ c.gateway = "designer" => Scenario = None
             /\ c.gateway = "facilitator" => Simulating
             /\ c.gateway = "evaluator"
                   => /\ Feedback = None
                      /\ Finished \/ (Simulating /\ lastRun'.clicked = "finish")
       /\ (Finished /\ ~ResetStep) => Finished'
       /\ (Scenario # None /\ ~ResetStep) => Scenario' # None]_vars

C19_Witness ==
    /\ lastRun.clicked = "submit"
    /\ FirstCallTo("evaluator")
    /\ Finished
    /\ evaluator_calls = 2

\* C20: in every reachable state the transcript alternates USER,
\* FACILITATOR, ... and, when not empty, ends with a FACILITATOR turn.
C20_TranscriptAlternates ==
    /\ Len(Transcript) % 2 = 0
    /\ \A i \in 1..Len(Transcript) :
          Transcript[i].role = (IF i % 2 = 1 THEN "user" ELSE "assistant")

\* the text before and the text after the (first) delimiter
TextBeforeDelimiter(t) == SubSeq(t, 1, Find(t, RUBRIC_DELIMITER) - 1)
TextAfterDelimiter(t) == SubSeq(t, Find(t, RUBRIC_DELIMITER) + 1, Len(t))

\* t without a SCENARIO: label at its start
WithoutLeadingLabel(t) ==
    IF t # <<>> /\ Head(t) = SCENARIO_LABEL THEN Tail(t) ELSE t

\* C15: with the delimiter in the answer, the scenario is the trimmed text
\* before it without a leading SCENARIO: label and the rubric is the trimmed
\* text after it; with no delimiter, the scenario is the trimmed answer and
\* the rubric is the sentinel.
C15_ParseAsClaimed ==
    (FirstCallTo("designer") /\ lastRun.calls[1].ok)
       => LET t == lastRun.calls[1].returned[1] IN
          IF Contains(t, RUBRIC_DELIMITER)
          THEN /\ Scenario =
                    Some(Strip(WithoutLeadingLabel(
                             Strip(TextBeforeDelimiter(t)))))
               /\ Rubric = Some(Strip(TextAfterDelimiter(t)))
          ELSE /\ Scenario = Some(Strip(t))
               /\ Rubric = Some(NO_RUBRIC_FOUND)

====
